---- MODULE Spec2Model ----
(***************************************************************************)
(* clean-node-module: a command-line tool that walks a directory tree,     *)
(* collects every directory named node_modules (without descending into a  *)
(* match) and then reports sizes, reports counts, or deletes the matches.  *)
(*                                                                         *)
(* The model follows src/clean-node-module.js.  A run is a sequence of     *)
(* steps: one per awaited filesystem call (readdir, stat, and each removal  *)
(* of one entry inside a recursive rm), together with the loop body that   *)
(* follows it, and one for the code before and after each loop.  The       *)
(* filesystem is a finite tree under the target directory.                 *)
(***************************************************************************)
EXTENDS Integers, Sequences, FiniteSets, TLC

VARIABLES
  argv,        \* process.argv.slice(2)
  tree,        \* the filesystem under the target directory
  tree0,       \* the filesystem as it was when the process started
  pc,          \* position of the run
  action,      \* main: const action
  target,      \* main: const target
  todo,        \* findNodeModules: directory entries still to be visited
  results,     \* findNodeModules: results / main: nodeModulesPaths
  idx,         \* index of the for-of loop of runSize / runCount / runDelete
  szTodo,      \* getDirSize: entries still to be measured for the current match
  szTotal,     \* getDirSize: total of the running call tree
  totalSize,   \* runSize: totalSize
  out,         \* lines written to stdout / stderr, in order
  rmCalls,     \* paths handed to rm(), in call order
  rmResolved,  \* the rm() awaited by runDelete has resolved, its line is not printed yet
  rmInFlight,  \* matches whose rm() rejected while removals inside them were pending
  caught,      \* paths whose failed readdir / stat was caught by the walkers
  exitCode,    \* process exit status (0 unless process.exit(1) is called)
  extCount,    \* number of modifications made by other processes so far
  fmtBytes,    \* formatBytes: argument bytes (base-1024 digits, most significant first)
  fmtDecimals, \* formatBytes: argument decimals
  fmtOut       \* formatBytes: returned string, as a sequence of tokens

vars == <<argv, tree, tree0, pc, action, target, todo, results, idx, szTodo,
          szTotal, totalSize, out, rmCalls, rmResolved, rmInFlight, caught,
          exitCode, extCount, fmtBytes, fmtDecimals, fmtOut>>

runVars == <<argv, tree, tree0, pc, action, target, todo, results, idx, szTodo,
             szTotal, totalSize, out, rmCalls, rmResolved, rmInFlight, caught,
             exitCode, extCount>>

rmVars == <<rmResolved, rmInFlight>>

fmtVars == <<fmtBytes, fmtDecimals, fmtOut>>

(***************************************************************************)
(* Bounds                                                                  *)
(***************************************************************************)
MaxSize == 2      \* file sizes range over 1..MaxSize
MaxExt == 2       \* modifications by other processes during one run
MaxDigits == 7    \* byte counts have at most MaxDigits base-1024 digits
MaxDirSize == 4096 \* stat reports 0..MaxDirSize bytes for a directory itself

(***************************************************************************)
(* formatBytes                                                             *)
(***************************************************************************)
k == 1024

units == <<"B", "KB", "MB", "GB", "TB", "PB">>

\* Digit values the byte counts are built from.
DigitVals == {0, 1, 128, 1020, 1023}

\* A double holds 53 significant bits: five base-1024 digits are always exact.
ExactDigits == 53 \div 10

\* Byte counts that are exactly representable JavaScript numbers.
ByteCounts ==
  { d \in UNION { [1..n -> DigitVals] : n \in 1..MaxDigits } :
      /\ (Len(d) > 1 => d[1] # 0)
      /\ \A j \in 1..Len(d) : j > ExactDigits => d[j] = 0 }

Decimals == {-1, 0, 2}

DecChar(c) == <<"0", "1", "2", "3", "4", "5", "6", "7", "8", "9">>[c + 1]

RECURSIVE DecStr(_)
DecStr(n) == IF n < 10 THEN <<DecChar(n)>>
             ELSE DecStr(n \div 10) \o <<DecChar(n % 10)>>

RECURSIVE Pow10(_)
Pow10(e) == IF e = 0 THEN 1 ELSE 10 * Pow10(e - 1)

RECURSIVE Zeros(_)
Zeros(n) == IF n <= 0 THEN <<>> ELSE <<"0">> \o Zeros(n - 1)

\* Base-1024 digits of a small non-negative integer.
RECURSIVE ToDigits(_)
ToDigits(n) == IF n < k THEN <<n>> ELSE ToDigits(n \div k) \o <<n % k>>

\* floor(m * 0.d1d2...dn) for the base-1024 fraction 0.d1d2...dn.
RECURSIVE MulCarry(_, _)
MulCarry(ds, m) ==
  IF ds = <<>> THEN 0 ELSE (m * Head(ds) + MulCarry(Tail(ds), m)) \div k

\* For a byte count of n = 5, 6, ... 11 base-1024 digits whose first four
\* digits are all 1023: the least fifth digit from which the double-precision
\* quotient Math.log(bytes) / Math.log(k) is rounded up to n.  Shorter byte
\* counts are never rounded up.
RoundsUpFrom == <<1021, 1018, 1023, 1020, 1017, 1018, 1023>>

\* Math.floor(Math.log(bytes) / Math.log(k)) in double arithmetic, for byte
\* counts below 1024^11: the exact floor of the base-1024 logarithm, except just
\* below a power of 1024, where the quotient is rounded up to the next integer.
LogFloor(bytes) ==
  IF /\ Len(bytes) >= ExactDigits
     /\ \A j \in 1..(ExactDigits - 1) : bytes[j] = k - 1
     /\ bytes[ExactDigits] >= RoundsUpFrom[Len(bytes) - ExactDigits + 1]
  THEN Len(bytes)
  ELSE Len(bytes) - 1

\* Number.prototype.toFixed(dm) of bytes / k^i, where whole is the integer part
\* and frac the base-1024 fraction digits: round half up at dm fraction digits.
toFixed(whole, frac, dm) ==
  LET n == whole * Pow10(dm) + (MulCarry(frac, 2 * Pow10(dm)) + 1) \div 2
      s == DecStr(n)
      p == Zeros(dm + 1 - Len(s)) \o s
  IN IF dm = 0 THEN p
     ELSE SubSeq(p, 1, Len(p) - dm) \o <<".">> \o SubSeq(p, Len(p) - dm + 1, Len(p))

\* `${units[i]}`: an index past the end of the array reads undefined.
unitLabel(i) == IF i + 1 \in DOMAIN units THEN units[i + 1] ELSE "undefined"

formatBytes(bytes, decimals) ==
  IF bytes = <<0>> THEN <<"0", " ", "B">>
  ELSE
    LET dm == IF decimals < 0 THEN 0 ELSE decimals
        i == LogFloor(bytes)
        whole == IF i = Len(bytes) - 1 THEN bytes[1] ELSE 0
        frac == IF i = Len(bytes) - 1 THEN Tail(bytes) ELSE bytes
    IN toFixed(whole, frac, dm) \o <<" ", unitLabel(i)>>

(***************************************************************************)
(* The filesystem under the target directory                               *)
(***************************************************************************)
NM == "node_modules"

\* A path is the sequence of entry names below the target directory.
Root == <<>>

Universe ==
  { <<"pkgA">>,
    <<"pkgA", "f">>,
    <<"pkgA", NM>>,
    <<"pkgA", NM, "a.txt">>,
    <<"pkgA", NM, "sub">>,
    <<"pkgA", NM, "sub", "f">>,
    <<"pkgA", NM, NM>>,
    <<"pkgB">>,
    <<"pkgB", NM>>,
    <<"pkgB", NM, "b.txt">> }

Paths == Universe \cup {Root}

\* The order in which a listing yields the names of a directory.
ListOrder == <<"a.txt", "b.txt", "f", NM, "pkgA", "pkgB", "sub">>

\* ok = FALSE: the entry exists, but for a directory readdir on it is refused
\* (no read permission) and for any other entry stat on it is refused (no
\* search permission on the way to it, a link that leads nowhere).
Absent == [kind |-> "absent", size |-> 0, ok |-> TRUE]
Dir == [kind |-> "dir", size |-> 0, ok |-> TRUE]
DirX == [kind |-> "dir", size |-> 0, ok |-> FALSE]
File(s) == [kind |-> "file", size |-> s, ok |-> TRUE]
FileX == [kind |-> "file", size |-> 1, ok |-> FALSE]
Other(s) == [kind |-> "other", size |-> s, ok |-> TRUE]

Sizes == 1..MaxSize
Files == { File(s) : s \in Sizes }
Others == { Other(s) : s \in Sizes }

\* st_size of a directory itself is whatever its filesystem keeps for it
\* (nothing, a few bytes per entry, one block or more): any byte count.
DirSizes == 0..MaxDirSize

join(dir, name) == Append(dir, name)
basename(p) == p[Len(p)]
Parent(p) == SubSeq(p, 1, Len(p) - 1)

\* q is p or lies inside p
Within(q, p) == Len(q) >= Len(p) /\ SubSeq(q, 1, Len(p)) = p
StrictlyInside(q, p) == Within(q, p) /\ q # p

WellFormed(t) ==
  \A p \in Universe : t[p].kind # "absent" => t[Parent(p)].kind = "dir"

Trees ==
  { t \in
      { [p \in Paths |->
          CASE p = Root -> r
            [] p = <<"pkgA">> -> a
            [] p = <<"pkgA", "f">> -> b
            [] p = <<"pkgA", NM>> -> c
            [] p = <<"pkgA", NM, "a.txt">> -> d
            [] p = <<"pkgA", NM, "sub">> -> e
            [] p = <<"pkgA", NM, "sub", "f">> -> f
            [] p = <<"pkgA", NM, NM>> -> g
            [] p = <<"pkgB">> -> x
            [] p = <<"pkgB", NM>> -> h
            [] OTHER -> i ] :
        r \in {Dir, Absent},
        a \in {Absent, Dir, DirX},
        b \in {Absent, File(1)},
        c \in {Absent, Dir, DirX},
        d \in {Absent, FileX} \cup Files \cup Others,
        e \in {Absent, Dir, DirX},
        f \in {Absent} \cup Files,
        g \in {Absent, Dir},
        x \in {Absent, Dir},
        h \in {Absent, Dir, File(1)},
        i \in {Absent, File(1)} } :
      WellFormed(t) }

\* fs.readdir(dir, {withFileTypes: true}): the Dirents of dir, or a failure
readdir(t, dir) ==
  IF t[dir].kind = "dir" /\ t[dir].ok
  THEN LET names == SelectSeq(ListOrder,
                      LAMBDA n : join(dir, n) \in Universe
                                 /\ t[join(dir, n)].kind # "absent")
       IN [ok |-> TRUE,
           entries |-> [j \in 1..Len(names) |->
                          [name |-> names[j],
                           isDirectory |-> t[join(dir, names[j])].kind = "dir"]]]
  ELSE [ok |-> FALSE, entries |-> <<>>]

\* fs.stat(path): follows the entry to whatever is there now.  A directory
\* is stat'ed without read permission on it; dsize is the size its
\* filesystem reports for it.
stat(t, p, dsize) ==
  IF t[p].kind = "dir"
  THEN [ok |-> TRUE, size |-> dsize]
  ELSE IF t[p].kind # "absent" /\ t[p].ok
  THEN [ok |-> TRUE, size |-> t[p].size]
  ELSE [ok |-> FALSE, size |-> 0]

\* Mutant: rm without {recursive: true}, only the entry itself is removed.
rmTargets_shallow(t, p) == IF t[p].kind # "absent" THEN {p} ELSE {}

\* fs.rm(p, {recursive: true, force: true}) removes entries one awaited call
\* at a time, children before their directory, in no fixed order: the
\* entries it can remove next.
rmTargets(t, p) ==
  { q \in Paths :
      /\ Within(q, p)
      /\ t[q].kind # "absent"
      /\ \A c \in Universe : Parent(c) = q => t[c].kind = "absent" }

\* one unlink / rmdir inside rm
unlink(t, q) == [t EXCEPT ![q] = Absent]

\* a subtree taken away in one step by another process
Detach(t, p) == [q \in Paths |-> IF Within(q, p) THEN Absent ELSE t[q]]

\* the entries of a listing, each with the full path the loop body computes
WithPaths(dir, entries) ==
  [j \in 1..Len(entries) |->
     [path |-> join(dir, entries[j].name),
      isDirectory |-> entries[j].isDirectory]]

(***************************************************************************)
(* Output lines                                                            *)
(***************************************************************************)
Line(fd, tag, path, n, text, plural) ==
  [fd |-> fd, tag |-> tag, path |-> path, n |-> n, text |-> text, plural |-> plural]

\* `📦 ${p}: ${formatBytes(size)}`
SizeLine(p, size) == Line("stdout", "size", p, size, formatBytes(ToDigits(size), 2), FALSE)
\* `💻 TOTAL SIZE: ${formatBytes(totalSize)}`
TotalLine(size) == Line("stdout", "total", Root, size, formatBytes(ToDigits(size), 2), FALSE)
\* `🔍 Found ${paths.length} node_modules folder${paths.length !== 1 ? "s" : ""}`
FoundLine(n) == Line("stdout", "found", Root, n, <<>>, n # 1)
\* `📂 ${p}: contains ${dirs} subfolder${dirs !== 1 ? "s" : ""}`
CountLine(p, dirs) == Line("stdout", "count", p, dirs, <<>>, dirs # 1)
\* `🗑️ Deleted: ${p}`
DeletedLine(p) == Line("stdout", "deleted", p, 0, <<>>, FALSE)
\* `❌ Failed to delete ${p}: ${err.message}`
FailedLine(p) == Line("stderr", "failed", p, 0, <<>>, FALSE)
\* `✅ Done deleting ${paths.length} node_modules folder${paths.length !== 1 ? "s" : ""}.`
DoneLine(n) == Line("stdout", "done", Root, n, <<>>, n # 1)
\* `Unknown action: ${action}`
UnknownLine == Line("stderr", "unknown", Root, 0, <<>>, FALSE)
\* "Valid actions are: size, count, delete"
ValidLine == Line("stderr", "valid", Root, 0, <<>>, FALSE)
\* "Unexpected error:", err
UnexpectedLine == Line("stderr", "unexpected", Root, 0, <<>>, FALSE)

(***************************************************************************)
(* findNodeModules                                                         *)
(***************************************************************************)
DirItem(p) == [path |-> p, isDirectory |-> TRUE]

\* Mutant: a match is appended and then walked like any other directory.
RECURSIVE visitEntries_descend(_, _)
visitEntries_descend(pending, res) ==
  IF pending = <<>> THEN [todo |-> <<>>, results |-> res]
  ELSE LET entry == Head(pending)
       IN IF entry.isDirectory
          THEN IF basename(entry.path) = NM
               THEN [todo |-> pending, results |-> Append(res, entry.path)]
               ELSE [todo |-> pending, results |-> res]
          ELSE visitEntries_descend(Tail(pending), res)

\* Mutant: only the entries of the listed directory are looked at, no recursion.
RECURSIVE visitEntries_flat(_, _)
visitEntries_flat(pending, res) ==
  IF pending = <<>> THEN [todo |-> <<>>, results |-> res]
  ELSE LET entry == Head(pending)
       IN IF entry.isDirectory /\ basename(entry.path) = NM
          THEN visitEntries_flat(Tail(pending), Append(res, entry.path))
          ELSE visitEntries_flat(Tail(pending), res)

\* The for-of loop body, run over the pending entries (those of the innermost
\* active call first) up to the next await: a directory named node_modules is
\* appended to results, any other directory stops the loop at the recursive
\* call, whose readdir is awaited, and every other entry is passed over.
RECURSIVE visitEntries(_, _)
visitEntries(pending, res) ==
  IF pending = <<>> THEN [todo |-> <<>>, results |-> res]
  ELSE LET entry == Head(pending)
       IN IF entry.isDirectory
          THEN IF basename(entry.path) = NM
               THEN visitEntries(Tail(pending), Append(res, entry.path))
               ELSE [todo |-> pending, results |-> res]
          ELSE visitEntries(Tail(pending), res)

\* Mutant: a failed listing is not caught.
findNodeModules_nocatch(t, pending, res) ==
  LET dir == Head(pending).path
      listing == readdir(t, dir)
  IN IF ~listing.ok
     THEN [threw |-> TRUE, todo |-> pending, results |-> res]
     ELSE [threw |-> FALSE] @@
          visitEntries(WithPaths(dir, listing.entries) \o Tail(pending), res)

\* One awaited readdir of findNodeModules and what follows it synchronously.
\* Head(pending) is the directory whose listing is awaited.
findNodeModules(t, pending, res) ==
  LET dir == Head(pending).path
      listing == readdir(t, dir)
  IN IF ~listing.ok
     THEN [threw |-> FALSE] @@ visitEntries(Tail(pending), res)
     ELSE [threw |-> FALSE] @@
          visitEntries(WithPaths(dir, listing.entries) \o Tail(pending), res)

(***************************************************************************)
(* getDirSize                                                              *)
(***************************************************************************)
\* Mutant: a failed stat is not caught.
getDirSize_nocatch(t, pending, total, dsize) ==
  LET entry == Head(pending)
  IN IF entry.isDirectory
     THEN LET listing == readdir(t, entry.path)
          IN IF ~listing.ok
             THEN [threw |-> FALSE, todo |-> Tail(pending), total |-> total]
             ELSE [threw |-> FALSE,
                   todo |-> WithPaths(entry.path, listing.entries) \o Tail(pending),
                   total |-> total]
     ELSE LET stats == stat(t, entry.path, dsize)
          IN IF ~stats.ok
             THEN [threw |-> TRUE, todo |-> pending, total |-> total]
             ELSE [threw |-> FALSE, todo |-> Tail(pending), total |-> total + stats.size]

\* the sizes stat can report for entry as a directory: any of DirSizes when
\* the entry was listed as something else and is a directory by now; no
\* other call of getDirSize reads the size of a directory
statDirSizes(t, entry) ==
  IF ~entry.isDirectory /\ t[entry.path].kind = "dir" THEN DirSizes ELSE {0}

\* the awaited call of getDirSize on entry ends in one of its catch blocks
getDirSizeFails(t, entry) ==
  IF entry.isDirectory THEN ~readdir(t, entry.path).ok
  ELSE ~stat(t, entry.path, 0).ok

\* One awaited call of getDirSize: the readdir of a directory entry (a failed
\* listing returns 0) or the stat of any other entry (a failed stat adds
\* nothing).  total is the sum over the running call tree; dsize is the
\* size stat reports for the entry should it be a directory by now.
getDirSize(t, pending, total, dsize) ==
  LET entry == Head(pending)
  IN IF entry.isDirectory
     THEN LET listing == readdir(t, entry.path)
          IN IF ~listing.ok
             THEN [threw |-> FALSE, todo |-> Tail(pending), total |-> total]
             ELSE [threw |-> FALSE,
                   todo |-> WithPaths(entry.path, listing.entries) \o Tail(pending),
                   total |-> total]
     ELSE LET stats == stat(t, entry.path, dsize)
          IN IF ~stats.ok
             THEN [threw |-> FALSE, todo |-> Tail(pending), total |-> total]
             ELSE [threw |-> FALSE, todo |-> Tail(pending), total |-> total + stats.size]

(***************************************************************************)
(* runCount, runDelete                                                     *)
(***************************************************************************)
RECURSIVE CountDirs(_)
CountDirs(entries) ==
  IF entries = <<>> THEN 0
  ELSE (IF Head(entries).isDirectory THEN 1 ELSE 0) + CountDirs(Tail(entries))

\* One iteration of runCount: entries.filter((e) => e.isDirectory()).length,
\* with entries = [] when the listing fails.
runCount(t, p) ==
  LET listing == readdir(t, p)
      entries == IF listing.ok THEN listing.entries ELSE <<>>
  IN CountDirs(entries)

\* the entries removals still pending inside p can take away after rm(p)
\* has rejected: p itself is removed only when everything inside it was
rmPending(t, p) == rmTargets(t, p) \ {p}

\* Mutant: a failed removal is not caught.
runDelete_nocatch(t, p, q, fails, resolved) ==
  IF resolved
  THEN [threw |-> FALSE, resolved |-> FALSE, tree |-> t,
        line |-> <<DeletedLine(p)>>, inFlight |-> {}]
  ELSE IF fails
  THEN [threw |-> TRUE, resolved |-> FALSE, tree |-> t,
        line |-> <<FailedLine(p)>>,
        inFlight |-> IF rmPending(t, p) # {} THEN {p} ELSE {}]
  ELSE IF t[p].kind = "absent"
  THEN [threw |-> FALSE, resolved |-> TRUE, tree |-> t, line |-> <<>>,
        inFlight |-> {}]
  ELSE [threw |-> FALSE, resolved |-> q = p, tree |-> unlink(t, q),
        line |-> <<>>, inFlight |-> {}]

\* One step of the loop body of runDelete around `await rm(p, ...)`.
\* While rm runs (resolved = FALSE) the step is one awaited call inside rm,
\* working on entry q, and fails says whether it is rejected: a rejection
\* rejects rm at once, with what it has removed so far and with the removals
\* of the other entries still pending (inFlight), and is caught, the loop
\* body printing the Failed line; with force, a path that is not there
\* resolves; removing p itself resolves; otherwise rm goes on.  Once rm has
\* resolved, the loop body resumes and prints the Deleted line.  line is
\* what the step prints, and a printed line ends the iteration.
runDelete(t, p, q, fails, resolved) ==
  IF resolved
  THEN [threw |-> FALSE, resolved |-> FALSE, tree |-> t,
        line |-> <<DeletedLine(p)>>, inFlight |-> {}]
  ELSE IF fails
  THEN [threw |-> FALSE, resolved |-> FALSE, tree |-> t,
        line |-> <<FailedLine(p)>>,
        inFlight |-> IF rmPending(t, p) # {} THEN {p} ELSE {}]
  ELSE IF t[p].kind = "absent"
  THEN [threw |-> FALSE, resolved |-> TRUE, tree |-> t, line |-> <<>>,
        inFlight |-> {}]
  ELSE [threw |-> FALSE, resolved |-> q = p, tree |-> unlink(t, q),
        line |-> <<>>, inFlight |-> {}]

(***************************************************************************)
(* main                                                                    *)
(***************************************************************************)
RepoPath == "/path/to/monorepo"

\* Command lines (process.argv.slice(2)) the runs are started with.
Args == { <<>>, <<"size">>, <<"count">>, <<"delete", RepoPath>>,
          <<RepoPath>>, <<"frobnicate">> }

\* process.argv[2] || "delete"
mainAction(av) == IF Len(av) >= 1 /\ av[1] # "" THEN av[1] ELSE "delete"

\* process.argv[3] || "."
mainTarget(av) == IF Len(av) >= 2 /\ av[2] # "" THEN av[2] ELSE "."

\* Mutant: the count case has no break and falls through to the delete case.
switchCase_fallthrough(a) ==
  IF a = "count" THEN "delete"
  ELSE IF a \in {"size", "delete"} THEN a ELSE "default"

\* switch (action): the case label taken
switchCase(a) == IF a \in {"size", "count", "delete"} THEN a ELSE "default"

\* Mutant: the default case reports the error but does not exit with 1.
usage_noexit(o) == [out |-> o \o <<UnknownLine, ValidLine>>, exitCode |-> 0]

\* the default case: two lines on stderr and process.exit(1)
usage(o) == [out |-> o \o <<UnknownLine, ValidLine>>, exitCode |-> 1]

\* main().catch: "Unexpected error:" on stderr and process.exit(1)
Fatal ==
  /\ pc' = "exited"
  /\ exitCode' = 1
  /\ out' = Append(out, UnexpectedLine)

Main ==
  /\ pc = "start"
  /\ action' = mainAction(argv)
  /\ target' = mainTarget(argv)
  /\ todo' = <<DirItem(Root)>>
  /\ pc' = "find"
  /\ UNCHANGED <<argv, tree, tree0, results, idx, szTodo, szTotal, totalSize,
                 out, rmCalls, exitCode, extCount, fmtVars, rmVars, caught>>

FindNodeModules ==
  /\ pc = "find"
  /\ LET r == findNodeModules(tree, todo, results)
     IN IF r.threw
        THEN Fatal /\ UNCHANGED <<todo, results>>
        ELSE /\ todo' = r.todo
             /\ results' = r.results
             /\ pc' = IF r.todo = <<>> THEN "switch" ELSE "find"
             /\ UNCHANGED <<out, exitCode>>
  /\ caught' = IF readdir(tree, Head(todo).path).ok THEN caught
               ELSE caught \cup {Head(todo).path}
  /\ UNCHANGED <<argv, tree, tree0, action, target, idx, szTodo, szTotal,
                 totalSize, rmCalls, extCount, fmtVars, rmVars>>

Switch ==
  /\ pc = "switch"
  /\ LET c == switchCase(action)
     IN IF c = "default"
        THEN LET u == usage(out)
             IN /\ out' = u.out
                /\ exitCode' = u.exitCode
                /\ pc' = "exited"
                /\ UNCHANGED <<idx, szTodo>>
        ELSE /\ pc' = c
             /\ idx' = IF c = "count" THEN 0 ELSE 1
             /\ szTodo' = IF c = "size" /\ results # <<>>
                          THEN <<DirItem(results[1])>> ELSE <<>>
             /\ UNCHANGED <<out, exitCode>>
  /\ UNCHANGED <<argv, tree, tree0, action, target, todo, results, szTotal,
                 totalSize, rmCalls, extCount, fmtVars, rmVars, caught>>

\* runSize: one awaited step of `await getDirSize(p)`; when the call returns,
\* the rest of the loop body.
GetDirSize ==
  /\ pc = "size"
  /\ idx <= Len(results)
  /\ \E dsize \in statDirSizes(tree, Head(szTodo)) :
     LET r == getDirSize(tree, szTodo, szTotal, dsize)
     IN IF r.threw
        THEN Fatal /\ UNCHANGED <<idx, szTodo, szTotal, totalSize>>
        ELSE IF r.todo = <<>>
        THEN /\ totalSize' = totalSize + r.total
             /\ out' = Append(out, SizeLine(results[idx], r.total))
             /\ idx' = idx + 1
             /\ szTotal' = 0
             /\ szTodo' = IF idx + 1 <= Len(results)
                          THEN <<DirItem(results[idx + 1])>> ELSE <<>>
             /\ UNCHANGED <<pc, exitCode>>
        ELSE /\ szTodo' = r.todo
             /\ szTotal' = r.total
             /\ UNCHANGED <<idx, totalSize, out, pc, exitCode>>
  /\ caught' = IF getDirSizeFails(tree, Head(szTodo)) THEN caught \cup {Head(szTodo).path}
               ELSE caught
  /\ UNCHANGED <<argv, tree, tree0, action, target, todo, results, rmCalls,
                 extCount, fmtVars, rmVars>>

\* runSize: after the loop
RunSizeTotal ==
  /\ pc = "size"
  /\ idx > Len(results)
  /\ out' = Append(out, TotalLine(totalSize))
  /\ pc' = "exited"
  /\ UNCHANGED <<argv, tree, tree0, action, target, todo, results, idx, szTodo,
                 szTotal, totalSize, rmCalls, exitCode, extCount, fmtVars, rmVars, caught>>

\* runCount: the line before the loop
RunCountFound ==
  /\ pc = "count"
  /\ idx = 0
  /\ out' = Append(out, FoundLine(Len(results)))
  /\ idx' = 1
  /\ UNCHANGED <<argv, tree, tree0, pc, action, target, todo, results, szTodo,
                 szTotal, totalSize, rmCalls, exitCode, extCount, fmtVars, rmVars, caught>>

\* runCount: one iteration of the loop
RunCount ==
  /\ pc = "count"
  /\ idx \in 1..Len(results)
  /\ out' = Append(out, CountLine(results[idx], runCount(tree, results[idx])))
  /\ idx' = idx + 1
  /\ caught' = IF readdir(tree, results[idx]).ok THEN caught
               ELSE caught \cup {results[idx]}
  /\ UNCHANGED <<argv, tree, tree0, pc, action, target, todo, results, szTodo,
                 szTotal, totalSize, rmCalls, exitCode, extCount, fmtVars, rmVars>>

\* runCount returns and the process ends
RunCountReturn ==
  /\ pc = "count"
  /\ idx > Len(results)
  /\ pc' = "exited"
  /\ UNCHANGED <<argv, tree, tree0, action, target, todo, results, idx, szTodo,
                 szTotal, totalSize, out, rmCalls, exitCode, extCount, fmtVars, rmVars, caught>>

\* runDelete: one step of the loop body.  rm is called when the iteration
\* starts.
RunDelete ==
  /\ pc = "delete"
  /\ idx \in 1..Len(results)
  /\ LET p == results[idx]
         targets == rmTargets(tree, p)
     IN \E fails \in BOOLEAN, q \in (IF targets = {} THEN {p} ELSE targets) :
          LET r == runDelete(tree, p, q, fails, rmResolved)
          IN IF r.threw
             THEN Fatal /\ UNCHANGED <<tree, idx, rmVars>>
             ELSE /\ tree' = r.tree
                  /\ rmResolved' = r.resolved
                  /\ rmInFlight' = rmInFlight \cup r.inFlight
                  /\ out' = out \o r.line
                  /\ idx' = IF r.line # <<>> THEN idx + 1 ELSE idx
                  /\ UNCHANGED <<pc, exitCode>>
  /\ rmCalls' = IF Len(rmCalls) < idx THEN Append(rmCalls, results[idx]) ELSE rmCalls
  /\ UNCHANGED <<argv, tree0, action, target, todo, results, szTodo, szTotal,
                 totalSize, extCount, fmtVars, caught>>

\* runDelete: after the loop.  The process ends when nothing is pending.
RunDeleteDone ==
  /\ pc = "delete"
  /\ idx > Len(results)
  /\ out' = Append(out, DoneLine(Len(results)))
  /\ pc' = IF rmInFlight = {} THEN "exited" ELSE "exiting"
  /\ UNCHANGED <<argv, tree, tree0, action, target, todo, results, idx, szTodo,
                 szTotal, totalSize, rmCalls, exitCode, extCount, fmtVars, rmVars, caught>>

\* A removal still pending inside a match whose rm() has rejected completes:
\* at any later moment of the run, also after runDelete has returned.
RmInFlight ==
  /\ pc # "exited"
  /\ \E p \in rmInFlight :
       \E q \in rmPending(tree, p) : tree' = unlink(tree, q)
  /\ UNCHANGED <<argv, tree0, pc, action, target, todo, results, idx, szTodo,
                 szTotal, totalSize, out, rmCalls, exitCode, extCount, fmtVars,
                 rmVars, caught>>

\* The removals pending inside a match whose rm() has rejected are over; the
\* process ends when main has returned and nothing is pending any more.
RmInFlightEnd ==
  /\ pc # "exited"
  /\ \E p \in rmInFlight :
       /\ rmInFlight' = rmInFlight \ {p}
       /\ pc' = IF pc = "exiting" /\ rmInFlight = {p} THEN "exited" ELSE pc
  /\ UNCHANGED <<argv, tree, tree0, action, target, todo, results, idx, szTodo,
                 szTotal, totalSize, out, rmCalls, rmResolved, exitCode, extCount,
                 fmtVars, caught>>

(***************************************************************************)
(* Other processes working on the same tree while the run is in progress   *)
(***************************************************************************)
ExternalDelete ==
  /\ pc # "exited"
  /\ extCount < MaxExt
  /\ \E p \in Paths :
       /\ tree[p].kind # "absent"
       /\ tree' = Detach(tree, p)
  /\ extCount' = extCount + 1
  /\ UNCHANGED <<argv, tree0, pc, action, target, todo, results, idx, szTodo,
                 szTotal, totalSize, out, rmCalls, exitCode, fmtVars, rmVars, caught>>

ExternalCreate ==
  /\ pc # "exited"
  /\ extCount < MaxExt
  /\ \E p \in Paths, n \in {Dir, File(1)} :
       /\ tree[p].kind = "absent"
       /\ p # Root => tree[Parent(p)].kind = "dir"
       /\ tree' = [tree EXCEPT ![p] = n]
  /\ extCount' = extCount + 1
  /\ UNCHANGED <<argv, tree0, pc, action, target, todo, results, idx, szTodo,
                 szTotal, totalSize, out, rmCalls, exitCode, fmtVars, rmVars, caught>>

(***************************************************************************)
(* Specifications                                                          *)
(***************************************************************************)
NoTree == [p \in Paths |-> Absent]

InitRun(t, av) ==
  /\ argv = av
  /\ tree = t
  /\ tree0 = t
  /\ pc = "start"
  /\ action = ""
  /\ target = ""
  /\ todo = <<>>
  /\ results = <<>>
  /\ idx = 0
  /\ szTodo = <<>>
  /\ szTotal = 0
  /\ totalSize = 0
  /\ out = <<>>
  /\ rmCalls = <<>>
  /\ rmResolved = FALSE
  /\ rmInFlight = {}
  /\ caught = {}
  /\ exitCode = 0
  /\ extCount = 0

InitNoFmt ==
  /\ fmtBytes = <<0>>
  /\ fmtDecimals = 2
  /\ fmtOut = <<>>

\* A run on any tree, with nothing else touching the tree.
Init ==
  /\ \E t \in Trees, av \in Args : InitRun(t, av)
  /\ InitNoFmt

Next ==
  \/ Main
  \/ FindNodeModules
  \/ Switch
  \/ GetDirSize
  \/ RunSizeTotal
  \/ RunCountFound
  \/ RunCount
  \/ RunCountReturn
  \/ RunDelete
  \/ RunDeleteDone
  \/ RmInFlight
  \/ RmInFlightEnd

Spec == Init /\ [][Next]_vars

\* The tree of the end-to-end scenarios: pkgA/node_modules with a.txt of 10
\* bytes and the subfolder sub, pkgB/node_modules with b.txt of 20 bytes.
ScenarioTree ==
  [p \in Paths |->
     IF p = <<"pkgA", NM, "a.txt">> THEN File(10)
     ELSE IF p = <<"pkgB", NM, "b.txt">> THEN File(20)
     ELSE IF p \in {Root, <<"pkgA">>, <<"pkgA", NM>>, <<"pkgA", NM, "sub">>,
                    <<"pkgB">>, <<"pkgB", NM>>} THEN Dir
     ELSE Absent]

InitRace ==
  /\ \E av \in {<<"size">>, <<"count">>, <<"delete">>} : InitRun(ScenarioTree, av)
  /\ InitNoFmt

NextRace ==
  \/ Next
  \/ ExternalDelete
  \/ ExternalCreate

SpecRace == InitRace /\ [][NextRace]_vars

\* formatBytes applied to a byte count
FormatBytes ==
  /\ fmtOut = <<>>
  /\ fmtOut' = formatBytes(fmtBytes, fmtDecimals)
  /\ UNCHANGED <<runVars, fmtBytes, fmtDecimals>>

InitFmt ==
  /\ InitRun(NoTree, <<>>)
  /\ fmtBytes \in ByteCounts
  /\ fmtDecimals \in Decimals
  /\ fmtOut = <<>>

NextFmt == FormatBytes

SpecFmt == InitFmt /\ [][NextFmt]_vars

(***************************************************************************)
(* Properties                                                              *)
(***************************************************************************)
ValidActions == {"size", "count", "delete"}

Exited == pc = "exited"

InResults(p) == \E j \in DOMAIN results : results[j] = p

InsideAMatch(p) == \E j \in DOMAIN results : Within(p, results[j])

IsNodeModulesDir(t, p) == t[p].kind = "dir" /\ basename(p) = NM

\* the directories strictly between the target and p, the target included
Ancestors(p) == { SubSeq(p, 1, n) : n \in 0..(Len(p) - 1) }

Listable(t, q) == t[q].kind = "dir" /\ t[q].ok

AllListable(t) == \A q \in Paths : t[q].kind = "dir" => t[q].ok

RECURSIVE SumOver(_, _)
SumOver(S, w) ==
  IF S = {} THEN 0
  ELSE LET x == CHOOSE y \in S : TRUE IN w[x] + SumOver(S \ {x}, w)

\* the entries under dir that a walk through listable directories reaches
ReachableUnder(t, dir) ==
  { q \in Universe :
      /\ StrictlyInside(q, dir)
      /\ t[q].kind # "absent"
      /\ \A a \in Ancestors(q) : Within(a, dir) => Listable(t, a) }

\* total size of the regular files under dir whose stat succeeds
RegularFileSize(t, dir) ==
  SumOver({ q \in ReachableUnder(t, dir) : t[q].kind = "file" /\ t[q].ok },
          [q \in Paths |-> t[q].size])

RECURSIVE SumSeq(_)
SumSeq(xs) == IF xs = <<>> THEN 0 ELSE Head(xs) + SumSeq(Tail(xs))

\* C1: at every point of every run, no path of the match list lies strictly
\* inside another path of the match list.
C1_NoNestedMatch ==
  \A i, j \in DOMAIN results : ~StrictlyInside(results[i], results[j])

\* C1 witness: discovery has finished with two matches on a tree that holds a
\* node_modules directory inside a match.
C1_Witness ==
  /\ pc = "switch"
  /\ Len(results) = 2
  /\ IsNodeModulesDir(tree, <<"pkgA", NM, NM>>)
  /\ InResults(<<"pkgA", NM>>)

\* C2 (as stated): when discovery has finished, every directory named
\* node_modules below the root is in the match list.
C2_EveryNodeModulesFound ==
  pc = "switch" =>
    \A p \in Universe : IsNodeModulesDir(tree, p) => InResults(p)

\* C2 (amended): when discovery has finished, every directory named
\* node_modules below the root whose ancestors up to the root are all listable
\* directories, none of them named node_modules, is in the match list.
C2_EveryReachableNodeModulesFound ==
  pc = "switch" =>
    \A p \in Universe :
      ( /\ IsNodeModulesDir(tree, p)
        /\ \A a \in Ancestors(p) :
             Listable(tree, a) /\ (a # Root => basename(a) # NM) )
      => InResults(p)

\* C2 witness: a match was gathered in each of two sibling packages, the
\* second after the walk of the first had returned, next to a node_modules
\* directory inside a match that was not gathered.
C2_Witness ==
  /\ pc = "switch"
  /\ results = << <<"pkgA", NM>>, <<"pkgB", NM>> >>
  /\ IsNodeModulesDir(tree, <<"pkgA", NM, NM>>)
  /\ tree[<<"pkgA", NM, "sub">>].kind = "dir" 

\* C3: a run started with no argument, or with a path as its only argument,
\* runs the delete action, on the current directory or on that path.
C3_ActionDefaultsToDelete ==
  (Exited /\ argv \in {<<>>, <<RepoPath>>}) =>
    /\ action = "delete"
    /\ target = (IF argv = <<>> THEN "." ELSE RepoPath)
    /\ out # <<>>
    /\ out[Len(out)] = DoneLine(Len(results))

\* C4: in a delete run, rm is called once per match in list order whatever
\* fails; each match yields its own line, the Deleted line when the match is
\* gone and the Failed line when it is still there, and the summary line is
\* printed with the length of the match list.
C4_DeleteAttemptsEveryMatch ==
  /\ pc = "delete" =>
       /\ Len(rmCalls) \in {idx - 1, idx}
       /\ Len(rmCalls) <= Len(results)
       /\ rmCalls = SubSeq(results, 1, Len(rmCalls))
  /\ (pc \in {"exiting", "exited"} /\ action = "delete") =>
       /\ rmCalls = results
       /\ Len(out) = Len(results) + 1
       /\ \A j \in DOMAIN results :
            /\ out[j] \in {DeletedLine(results[j]), FailedLine(results[j])}
            /\ out[j] = DeletedLine(results[j]) <=> tree[results[j]].kind = "absent"
       /\ out[Len(out)] = DoneLine(Len(results))

\* C4 witness: the first of two removals failed after rm had removed part
\* of the match, and the second was still made.
C4_Witness ==
  /\ Exited
  /\ action = "delete"
  /\ Len(results) = 2
  /\ out[1] = FailedLine(results[1])
  /\ tree[results[1]].kind = "dir"
  /\ \E q \in Universe :
       /\ StrictlyInside(q, results[1])
       /\ tree0[q].kind # "absent"
       /\ tree[q].kind = "absent"
  /\ out[2] = DeletedLine(results[2])
  /\ out[3] = DoneLine(2)

\* C5: the exit status is non-zero exactly when the action token is not one
\* of size, count, delete, or a failure reached the top-level handler.
C5_ExitStatus ==
  Exited =>
    ( exitCode # 0 <=>
        \/ action \notin ValidActions
        \/ \E j \in DOMAIN out : out[j] = UnexpectedLine )

\* C5 witness: a delete run in which every removal failed ended with status 0.
C5_Witness ==
  /\ Exited
  /\ action = "delete"
  /\ Len(results) = 2
  /\ \A j \in DOMAIN results : out[j] = FailedLine(results[j])
  /\ exitCode = 0

\* C6: in a run whose action token is not delete, the tree is at every point
\* what it was at the start and rm is never called.
C6_OnlyDeleteMutates ==
  mainAction(argv) # "delete" => (tree = tree0 /\ rmCalls = <<>>)

\* C6 witness: a count run, or a run with an unknown action, has ended on a
\* tree with two matches.
C6_Witness ==
  /\ Exited
  /\ action \in {"count", "frobnicate"}
  /\ Len(results) = 2

\* C7: after a delete run on a tree whose directories are all listable and in
\* which no removal failed, no directory named node_modules is left and the
\* tree is the original one without the subtrees of the matches.
C7_DeleteRemovesExactlyTheMatches ==
  ( /\ Exited
    /\ action = "delete"
    /\ AllListable(tree0)
    /\ \A j \in DOMAIN out : out[j].tag # "failed" )
  =>
    /\ \A p \in Universe : ~IsNodeModulesDir(tree, p)
    /\ \A p \in Paths :
         tree[p] = IF InsideAMatch(p) THEN Absent ELSE tree0[p]

\* C7 witness: two matches, one holding a nested node_modules, were removed and
\* the package directory and its own file are still there.
C7_Witness ==
  /\ Exited
  /\ action = "delete"
  /\ AllListable(tree0)
  /\ out = <<DeletedLine(<<"pkgA", NM>>), DeletedLine(<<"pkgB", NM>>), DoneLine(2)>>
  /\ IsNodeModulesDir(tree0, <<"pkgA", NM, NM>>)
  /\ tree[<<"pkgA">>] = Dir
  /\ tree[<<"pkgB">>] = Dir
  /\ tree[<<"pkgA", "f">>].kind = "file"

\* C8: formatBytes with 2 decimals returns "0 B" for 0 and otherwise the value
\* divided by the largest power of 1024 not above it, with two fraction digits,
\* and the label of that power, which is one of B, KB, MB, GB, TB, PB.
C8_FormatBytes ==
  (fmtOut # <<>> /\ fmtDecimals = 2) =>
    IF fmtBytes = <<0>> THEN fmtOut = <<"0", " ", "B">>
    ELSE /\ fmtOut[Len(fmtOut)] \in { units[j] : j \in DOMAIN units }
         /\ Len(fmtBytes) <= Len(units) =>
              fmtOut = toFixed(fmtBytes[1], Tail(fmtBytes), 2)
                         \o <<" ", units[Len(fmtBytes)]>>

\* C9: in a size run every match is reported with the total size of the
\* regular files reachable under it through listable directories, and the
\* grand total is the sum of the reported sizes.
C9_SizeIsRegularFileTotal ==
  (Exited /\ action = "size") =>
    /\ Len(out) = Len(results) + 1
    /\ \A j \in DOMAIN results :
         out[j] = SizeLine(results[j], RegularFileSize(tree0, results[j]))
    /\ out[Len(out)] =
         TotalLine(SumSeq([j \in DOMAIN results |->
                             RegularFileSize(tree0, results[j])]))

OutputShape ==
  CASE action = "size" ->
         /\ Len(out) = Len(results) + 1
         /\ \A j \in DOMAIN results : out[j].tag = "size" /\ out[j].path = results[j]
         /\ out[Len(out)].tag = "total"
    [] action = "count" ->
         /\ Len(out) = Len(results) + 1
         /\ out[1] = FoundLine(Len(results))
         /\ \A j \in DOMAIN results :
              out[j + 1].tag = "count" /\ out[j + 1].path = results[j]
    [] action = "delete" ->
         /\ Len(out) = Len(results) + 1
         /\ \A j \in DOMAIN results :
              out[j].tag \in {"deleted", "failed"} /\ out[j].path = results[j]
         /\ out[Len(out)] = DoneLine(Len(results))
    [] OTHER -> FALSE

\* C10 (as stated): with other processes creating and deleting entries during
\* the run, a run with a valid action never takes the fatal exit, and when it
\* ends every match has its own line and the summary line comes after them.
C10_SummaryLineLast ==
  /\ exitCode = 0
  /\ Exited =>
       /\ \A j \in DOMAIN results :
            \E n \in DOMAIN out :
              out[n].path = results[j] /\ out[n].tag \in {"size", "count", "deleted", "failed"}
       /\ out # <<>>
       /\ out[Len(out)].tag \in {"total", "found", "done"}

\* a step of the run itself, not of another process
RunStep == extCount' = extCount /\ <<pc, todo, idx, szTodo>>' # <<pc, todo, idx, szTodo>>

Items(seq) == { seq[j] : j \in DOMAIN seq }

\* Discovery meets a directory it cannot list: nothing below that directory
\* joins the match list, and every entry that was pending behind it is dealt
\* with as if the listing had worked (a node_modules directory joins the
\* match list when the loop comes to it, any other directory stays pending to
\* be listed), the run going on.
FailedListingSkipped ==
  ( /\ pc = "find"
    /\ RunStep
    /\ ~readdir(tree, Head(todo).path).ok )
  =>
    /\ pc' \in {"find", "switch"}
    /\ Head(todo).path \in caught'
    /\ \A p \in Items(results') \ Items(results) : ~Within(p, Head(todo).path)
    /\ \A j \in 2..Len(todo) :
         todo[j].isDirectory =>
           IF basename(todo[j].path) = NM
           THEN todo[j].path \in Items(results') \/ todo[j] \in Items(todo')
           ELSE todo[j] \in Items(todo')

\* Measuring meets an entry it cannot list or stat: the entry adds nothing
\* to the size of the match, and the entries pending behind it are still
\* measured, or the match is reported with what was added up so far.
FailedMeasureIsZero ==
  ( /\ pc = "size"
    /\ RunStep
    /\ idx <= Len(results)
    /\ getDirSizeFails(tree, Head(szTodo)) )
  =>
    /\ pc' = "size"
    /\ Head(szTodo).path \in caught'
    /\ IF Len(szTodo) > 1
       THEN szTodo' = Tail(szTodo) /\ szTotal' = szTotal /\ out' = out
       ELSE /\ out' = Append(out, SizeLine(results[idx], szTotal))
            /\ totalSize' = totalSize + szTotal
            /\ idx' = idx + 1

\* Counting meets a match it cannot list: the match is reported with 0
\* subfolders and the loop goes on.
FailedCountIsZero ==
  ( /\ pc = "count"
    /\ RunStep
    /\ idx \in 1..Len(results)
    /\ ~readdir(tree, results[idx]).ok )
  =>
    /\ pc' = "count"
    /\ out' = Append(out, CountLine(results[idx], 0))
    /\ idx' = idx + 1

\* C10 (amended): with other processes creating and deleting entries during
\* the run, a run with a valid action never takes the fatal exit; a listing
\* or stat that fails is taken as no entries or no bytes, and the walk goes
\* on with the entries that were pending; and when the run ends every match
\* has its own line, in list order, the summary line coming after them in a
\* size or delete run and before them in a count run.
C10_NoFatalExitUnderRaces ==
  /\ [](exitCode = 0)
  /\ [](\A j \in DOMAIN out : out[j] # UnexpectedLine)
  /\ [](Exited => OutputShape)
  /\ [][FailedListingSkipped /\ FailedMeasureIsZero /\ FailedCountIsZero]_vars

\* C10 witness: a size run ended in which another process took pkgA away
\* after the target had been listed: the listing of pkgA failed, discovery
\* went on to its sibling pkgB and gathered the match there; that match was
\* then taken away in turn, and it was reported with size 0 before the total.
C10_Witness ==
  /\ Exited
  /\ action = "size"
  /\ extCount > 0
  /\ <<"pkgA">> \in caught
  /\ results = << <<"pkgB", NM>> >>
  /\ <<"pkgB", NM>> \in caught
  /\ tree[<<"pkgB", NM>>].kind = "absent"
  /\ out = <<SizeLine(<<"pkgB", NM>>, 0), TotalLine(0)>>

====
